---- MODULE Spec2Model ----
(***************************************************************************)
(* Signalry: the campaign send pipeline, SMTP rotation and health          *)
(* tracking, the message queue executor and the open/click tracking        *)
(* endpoints, as state machines over the persisted tables.                 *)
(*                                                                         *)
(* Each subsystem has its own specification (SmtpSpec, ...) over the one   *)
(* set of variables; the tables a subsystem does not touch stay as its     *)
(* initial state leaves them.                                              *)
(***************************************************************************)
EXTENDS Integers, Sequences, FiniteSets, Bags, TLC

VARIABLES
    smtp,        \* SMTPAccount table: sequence of rows, the id is the index
    streak,      \* per account: mark_failure calls since it was last (active, 0); -1 once disturbed
    campaigns,   \* Campaign table: sequence of rows, the id is the index
    messages,    \* Message table: sequence of rows, the id is the index
    recips,      \* MessageRecipient table: sequence of rows, the id is the index
    opens,       \* MessageOpen table: a bag of rows
    clicks,      \* Click table: a bag of rows
    last         \* the last operation run: its name, arguments and result

vars == <<smtp, streak, campaigns, messages, recips, opens, clicks, last>>

smtpVars == <<smtp, streak>>
campaignVars == <<campaigns, messages, recips>>
trackVars == <<opens, clicks>>

\* ------------------------------------------------------------------ bounds

MaxAccounts == 2
MaxFailures == 3
MaxContacts == 2

\* ------------------------------------------------------------- SMTP accounts

Users == {"u1", "u2"}
Groups == {"g1"}
\* rotation_group=None (or empty): no group given
NoGroup == ""
\* specific_account=None
NoAccount == 0

\* Contact ids
Contacts == 1..MaxContacts
\* contact=None
NoContact == 0

FAILURE_THRESHOLD == 3

AccountIds == DOMAIN smtp

\* SMTPAccountManager.create_smtp: the row it saves
NewAccount(user, group) ==
    [user |-> user, group |-> group, status |-> "active", failure_count |-> 0]

\* A breaker that trips one failure late
DisableWhenOverThreshold(row) ==
    IF row.failure_count > FAILURE_THRESHOLD
    THEN [row EXCEPT !.status = "disabled"]
    ELSE row

\* SMTPAccountManager.disable_if_failed, on a row
disable_if_failed(row) ==
    IF row.failure_count >= FAILURE_THRESHOLD
    THEN [row EXCEPT !.status = "disabled"]
    ELSE row

\* SMTPAccount.mark_failure, on a row
mark_failure(row) ==
    disable_if_failed([row EXCEPT !.failure_count = @ + 1])

\* A reset that restores the status and keeps the count
ResetKeepsCount(row) == [row EXCEPT !.status = "active"]

\* SMTPAccount.reset_failures, on a row
reset_failures(row) ==
    [row EXCEPT !.failure_count = 0, !.status = "active"]

\* A queryset that forgets the status filter
CandidatesOfAnyStatus(table, user, rotation_group) ==
    {a \in DOMAIN table :
        /\ table[a].user = user
        /\ (rotation_group # NoGroup => table[a].group = rotation_group)}

\* The queryset of get_smtp_for_sending: the user's active accounts, of the group when one is given
RotationCandidates(table, user, rotation_group) ==
    {a \in DOMAIN table :
        /\ table[a].user = user
        /\ table[a].status = "active"
        /\ (rotation_group # NoGroup => table[a].group = rotation_group)}

\* SMTPAccountManager.get_smtp_for_sending over the account table `table`: the
\* set of its possible outcomes (random.choice picks any candidate);
\* ok = FALSE is the ValidationError
get_smtp_for_sending(table, user, rotation_group, specific_account) ==
    IF specific_account # NoAccount
    THEN IF table[specific_account].status # "active"
         THEN {[ok |-> FALSE, acct |-> NoAccount]}
         ELSE {[ok |-> TRUE, acct |-> specific_account]}
    ELSE LET accounts == RotationCandidates(table, user, rotation_group)
         IN  IF accounts = {}
             THEN {[ok |-> FALSE, acct |-> NoAccount]}
             ELSE {[ok |-> TRUE, acct |-> a] : a \in accounts}

\* What core.encryption.decrypt does with the stored password: returns the
\* password, returns "", or raises
DecryptOutcomes == {"password", "empty", "raises"}

\* What the mail server does with one send: accepts it, answers with an SMTP
\* error, or the send fails before or outside the SMTP exchange
SendOutcomes == {"ok", "smtp_error", "other_error"}

\* SMTPAccount.get_password, when decrypt does `decrypted`: what it returns,
\* whether it raises, and the row it leaves
get_password(row, decrypted) ==
    [returned |-> IF decrypted = "password" THEN "password" ELSE "",
     raised |-> decrypted = "raises",
     row |-> row]

\* SMTPAccountManager.send_email over the account table `table`, when decrypt
\* does `decrypted` and the mail server does `outcome`: the set of its
\* possible results (raised: it raised; sent: sendmail was done)
send_email(table, user, rotation_group, specific_account, decrypted, outcome) ==
    { IF ~p.ok
      THEN [raised |-> TRUE, error |-> "ValidationError", sent |-> FALSE,
            acct |-> NoAccount, smtp |-> table]
      ELSE LET pw == get_password(table[p.acct], decrypted)
               held == [table EXCEPT ![p.acct] = pw.row]
           IN  IF pw.raised \/ outcome # "ok"
               \* except Exception: mark_failure(); raise
               THEN [raised |-> TRUE, error |-> "Exception", sent |-> FALSE,
                     acct |-> p.acct, smtp |-> [held EXCEPT ![p.acct] = mark_failure(@)]]
               \* login with whatever get_password returned, sendmail, reset_failures()
               ELSE [raised |-> FALSE, error |-> "", sent |-> TRUE,
                     acct |-> p.acct, smtp |-> [held EXCEPT ![p.acct] = reset_failures(@)]]
      : p \in get_smtp_for_sending(table, user, rotation_group, specific_account) }

\* The failure counts stay within the range explored
WithinFailureBound(table) ==
    \A a \in DOMAIN table : table[a].failure_count <= MaxFailures

SmtpInit ==
    /\ smtp = <<>>
    /\ streak = <<>>

CreateSmtp ==
    /\ Len(smtp) < MaxAccounts
    /\ \E user \in Users, group \in Groups \cup {NoGroup} :
        /\ smtp' = Append(smtp, NewAccount(user, group))
        /\ streak' = Append(streak, 0)
        /\ last' = [op |-> "create_smtp", acct |-> Len(smtp) + 1]
        /\ UNCHANGED <<campaignVars, trackVars>>

MarkFailure ==
    \E a \in AccountIds :
        /\ smtp[a].failure_count < MaxFailures
        /\ smtp' = [smtp EXCEPT ![a] = mark_failure(@)]
        /\ streak' = [streak EXCEPT ![a] = IF @ >= 0 THEN @ + 1 ELSE @]
        /\ last' = [op |-> "mark_failure", acct |-> a]
        /\ UNCHANGED <<campaignVars, trackVars>>

ResetFailures ==
    \E a \in AccountIds :
        /\ smtp' = [smtp EXCEPT ![a] = reset_failures(@)]
        /\ streak' = [streak EXCEPT ![a] = 0]
        /\ last' = [op |-> "reset_failures", acct |-> a]
        /\ UNCHANGED <<campaignVars, trackVars>>

\* SMTPToggleStatusView.post
SmtpToggleStatus ==
    \E a \in AccountIds :
        /\ IF smtp[a].status = "active"
           THEN /\ smtp' = [smtp EXCEPT ![a].status = "disabled"]
                /\ streak' = [streak EXCEPT ![a] = -1]
           ELSE /\ smtp' = [smtp EXCEPT ![a] = reset_failures([@ EXCEPT !.status = "active"])]
                /\ streak' = [streak EXCEPT ![a] = 0]
        /\ last' = [op |-> "smtp_toggle", acct |-> a]
        /\ UNCHANGED <<campaignVars, trackVars>>

GetSmtpForSending ==
    \E user \in Users, rotation_group \in Groups \cup {NoGroup},
       specific_account \in AccountIds \cup {NoAccount} :
        \E r \in get_smtp_for_sending(smtp, user, rotation_group, specific_account) :
            /\ last' = [op |-> "get_smtp_for_sending", user |-> user,
                        rotation_group |-> rotation_group,
                        specific_account |-> specific_account,
                        ok |-> r.ok, acct |-> r.acct]
            /\ UNCHANGED <<smtpVars, campaignVars, trackVars>>

\* A call of account.get_password()
GetPassword ==
    \E a \in AccountIds, decrypted \in DecryptOutcomes :
        LET pw == get_password(smtp[a], decrypted)
        IN  /\ smtp' = [smtp EXCEPT ![a] = pw.row]
            /\ last' = [op |-> "get_password", acct |-> a, decrypted |-> decrypted,
                        returned |-> pw.returned, raised |-> pw.raised]
            /\ UNCHANGED <<streak, campaignVars, trackVars>>

\* A call of SMTPAccount.objects.send_email(user, ..., rotation_group, specific_account)
SendEmail ==
    \E user \in Users, rotation_group \in Groups \cup {NoGroup},
       specific_account \in AccountIds \cup {NoAccount},
       decrypted \in DecryptOutcomes, outcome \in SendOutcomes :
        \E r \in send_email(smtp, user, rotation_group, specific_account, decrypted, outcome) :
            /\ WithinFailureBound(r.smtp)
            /\ smtp' = r.smtp
            /\ streak' = [a \in DOMAIN streak |->
                            IF a # r.acct THEN streak[a]
                            ELSE IF ~r.raised THEN 0
                            ELSE IF streak[a] >= 0 THEN streak[a] + 1 ELSE streak[a]]
            /\ last' = [op |-> "send_email", acct |-> r.acct, decrypted |-> decrypted,
                        raised |-> r.raised, error |-> r.error, sent |-> r.sent]
            /\ UNCHANGED <<campaignVars, trackVars>>

SmtpNext ==
    \/ CreateSmtp
    \/ MarkFailure
    \/ ResetFailures
    \/ SmtpToggleStatus
    \/ GetSmtpForSending

NoOp == [op |-> "none"]

NoTables ==
    /\ campaigns = <<>>
    /\ messages = <<>>
    /\ recips = <<>>
    /\ opens = EmptyBag
    /\ clicks = EmptyBag

SmtpSpecInit ==
    /\ SmtpInit
    /\ NoTables
    /\ last = NoOp

SmtpSpec == SmtpSpecInit /\ [][SmtpNext]_vars

\* -- sending through the accounts

SendNext ==
    \/ SendEmail
    \/ GetPassword
    \/ SmtpToggleStatus

\* Three accounts as create_smtp leaves them: two of user u1, one of them in
\* rotation group g1, and one of user u2
SendSpecInit ==
    /\ smtp = <<NewAccount("u1", NoGroup), NewAccount("u1", "g1"), NewAccount("u2", NoGroup)>>
    /\ streak = <<0, 0, 0>>
    /\ NoTables
    /\ last = NoOp

SendSpec == SendSpecInit /\ [][SendNext]_vars

\* ------------------------------------------------------ open/click tracking

\* ip_hash = None
NULL == "NULL"

UA_MAX_LEN == 50

\* hashlib.sha256(raw_ip.encode("utf-8")).hexdigest(): a digest is not the text it digests
Sha256(text) == "sha256(" \o text \o ")"

\* The ip_hash the entry points compute: None for an absent or empty address
HashIp(raw_ip) == IF raw_ip # "" THEN Sha256(raw_ip) ELSE NULL

Min(a, b) == IF a <= b THEN a ELSE b

\* A header value is a sequence of characters; s.split("/")[0]
RECURSIVE SplitFirst(_)
SplitFirst(s) ==
    IF s = <<>> \/ Head(s) = "/" THEN <<>> ELSE <<Head(s)>> \o SplitFirst(Tail(s))

\* s[:n]
Truncate(s, n) == SubSeq(s, 1, Min(n, Len(s)))

\* user_agent.split("/")[0][:50], applied when the value is not empty
CoarseUserAgent(user_agent) ==
    IF user_agent # <<>> THEN Truncate(SplitFirst(user_agent), UA_MAX_LEN) ELSE user_agent

\* MessageOpen.save: the row as stored
MessageOpenSave(row) ==
    [row EXCEPT !.user_agent_family = CoarseUserAgent(@)]

\* A save() that stores the header as given
ClickSaveAsGiven(row) == row

\* Click.save: the row as stored
ClickSave(row) ==
    [row EXCEPT !.user_agent_family = CoarseUserAgent(@)]

\* Message.objects.get(uuid=...): the ids of the messages with that uuid (none: DoesNotExist)
MessagesByUuid(uuid) == {m \in DOMAIN messages : messages[m].uuid = uuid}

\* The 'recipient' query parameter as text; int() of it, where it is a number
IdOfText == ("1" :> 1) @@ ("2" :> 2) @@ ("9" :> 9)
IsNumber(text) == text \in DOMAIN IdOfText

\* MessageRecipient.mark_opened, on a row
mark_opened(row) == [row EXCEPT !.status = "opened", !.opened_at = TRUE]

\* A mark_sent that stamps sent_at and forgets the status
MarkSentKeepsStatus(row) == [row EXCEPT !.sent_at = TRUE]

\* MessageRecipient.mark_sent, on a row
recipient_mark_sent(row) == [row EXCEPT !.status = "sent", !.sent_at = TRUE]

\* MessageRecipient.mark_clicked, on a row
mark_clicked(row) == [row EXCEPT !.status = "clicked", !.clicked_at = TRUE]

\* HttpResponse(PIXEL, content_type="image/png")
PixelResponse == [status |-> 200, content_type |-> "image/png", body |-> "PIXEL"]

\* Message.get_sent_count, over the recipient table `table`
get_sent_count(table, message) ==
    Cardinality({r \in DOMAIN table :
                    table[r].message = message /\ table[r].status = "sent"})

\* Campaign.get_sent_count, over the recipient table `table`
campaign_get_sent_count(table, c) ==
    LET ms == {m \in DOMAIN messages : messages[m].campaign = c}
    IN  IF ms = {} THEN 0
        ELSE get_sent_count(table, CHOOSE m \in ms : \A k \in ms : m <= k)

\* The framework's answer to an exception the view does not catch
ServerError == [status |-> 500, content_type |-> "text/html", body |-> "Server Error"]

\* A beacon that records an open whatever the lookup finds
BeaconRecordsUnknown(uuid, recipient_id, raw_ip, user_agent) ==
    [opens |-> opens (+) SetToBag({[message |-> 0, recipient |-> 0,
                                    ip_hash |-> HashIp(raw_ip),
                                    user_agent_family |-> CoarseUserAgent(user_agent)]}),
     recips |-> recips, rid |-> 0, found |-> MessagesByUuid(uuid) # {},
     response |-> PixelResponse]

\* message_beacon: the tables and the response after GET t/<uuid>.png?recipient=<recipient_id>.
\* `rid` is the recipient the view resolved (0: none).
message_beacon(uuid, recipient_id, raw_ip, user_agent) ==
    LET found == MessagesByUuid(uuid)
        same == [opens |-> opens, recips |-> recips, rid |-> 0, found |-> found # {}]
    IN  IF found = {}
        \* Message.DoesNotExist: caught, the pixel is returned
        THEN same @@ [response |-> PixelResponse]
        ELSE LET message == CHOOSE m \in found : TRUE
             IN  IF recipient_id # "" /\ ~IsNumber(recipient_id)
                 \* MessageRecipient.objects.get(id='abc'): ValueError, which no except clause names
                 THEN same @@ [response |-> ServerError]
                 ELSE LET match == IF recipient_id = "" THEN {}
                                   ELSE {r \in DOMAIN recips :
                                            /\ r = IdOfText[recipient_id]
                                            /\ recips[r].message = message}
                          rid == IF match = {} THEN 0 ELSE CHOOSE r \in match : TRUE
                          row == MessageOpenSave(
                                    [message |-> message, recipient |-> rid,
                                     ip_hash |-> HashIp(raw_ip),
                                     user_agent_family |-> CoarseUserAgent(user_agent)])
                     IN  [opens |-> opens (+) SetToBag({row}),
                          recips |-> IF rid # 0 THEN [recips EXCEPT ![rid] = mark_opened(@)]
                                     ELSE recips,
                          rid |-> rid, found |-> TRUE,
                          response |-> PixelResponse]

\* A record_open that stores an open only when no equal one is stored
RecordOpenOnce(message, contact, raw_ip, user_agent_family) ==
    LET match == {r \in DOMAIN recips :
                    contact # NoContact /\ recips[r].message = message /\ recips[r].contact = contact}
        rid == IF match = {} THEN 0 ELSE CHOOSE r \in match : TRUE
        row == [message |-> message, recipient |-> rid, ip_hash |-> HashIp(raw_ip),
                user_agent_family |-> CoarseUserAgent(user_agent_family)]
    IN  [opens |-> IF BagIn(row, opens) THEN opens ELSE opens (+) SetToBag({row}),
         recips |-> IF rid # 0 THEN [recips EXCEPT ![rid] = mark_opened(@)] ELSE recips,
         rid |-> rid]

\* MessageOpenManager.record_open(message, contact, raw_ip, user_agent_family)
record_open(message, contact, raw_ip, user_agent_family) ==
    LET match == IF contact = NoContact THEN {}
                 ELSE {r \in DOMAIN recips :
                          recips[r].message = message /\ recips[r].contact = contact}
        \* .first(): the pair is unique_together, so there is at most one
        rid == IF match = {} THEN 0 ELSE CHOOSE r \in match : \A q \in match : r <= q
        row == MessageOpenSave(
                  [message |-> message, recipient |-> rid,
                   ip_hash |-> HashIp(raw_ip),
                   user_agent_family |-> CoarseUserAgent(user_agent_family)])
    IN  [opens |-> opens (+) SetToBag({row}),
         recips |-> IF rid # 0 THEN [recips EXCEPT ![rid] = mark_opened(@)] ELSE recips,
         rid |-> rid]

\* ClickManager.record_click(message, url, raw_ip, user_agent_family): the row it stores
record_click(message, raw_ip, user_agent_family) ==
    ClickSave([message |-> message, ip_hash |-> HashIp(raw_ip),
               user_agent_family |-> CoarseUserAgent(user_agent_family)])

NotFoundResponse ==
    [status |-> 404, content_type |-> "application/json", body |-> "Message not found"]

CreatedResponse ==
    [status |-> 201, content_type |-> "application/json", body |-> "click"]

\* RecordClickView.post: the Click table and the response
RecordClickView(beacon_uuid, raw_ip, user_agent) ==
    LET found == MessagesByUuid(beacon_uuid)
    IN  IF found = {}
        THEN [clicks |-> clicks, found |-> FALSE, response |-> NotFoundResponse]
        ELSE LET message == CHOOSE m \in found : TRUE
                 row == ClickSave([message |-> message, ip_hash |-> HashIp(raw_ip),
                                   user_agent_family |-> user_agent])
             IN  [clicks |-> clicks (+) SetToBag({row}), found |-> TRUE,
                  response |-> CreatedResponse]

\* Click.objects.create(message=, beacon_uuid=, url=, user_agent_family=): no ip_hash given
DirectClick(message, user_agent_family) ==
    ClickSave([message |-> message, ip_hash |-> NULL,
               user_agent_family |-> user_agent_family])

\* -- the requests tried

Xs(n) == [i \in 1..n |-> "x"]

\* What a client sends: its address and its User-Agent header
Clients ==
    { [ip |-> "", ua |-> <<>>],
      [ip |-> "10.0.0.1", ua |-> <<"C", "r", "/", "1">>],
      [ip |-> "10.0.0.2", ua |-> Xs(UA_MAX_LEN + 1) \o <<"/", "1">>] }

RawIps == {c.ip : c \in Clients}

UuidA == "uuid-a"
UuidB == "uuid-b"
\* the uuid of no message
UuidNone == "uuid-0"
Uuids == {UuidA, UuidB, UuidNone}

\* absent, not a number, the ids of the two recipients, the id of no recipient
RecipientParams == {"", "abc", "1", "2", "9"}


\* MessageManager.create_message: the row it saves (content: a subject and a body are set)
NewMessage(campaign, uuid, sender_smtp) ==
    [campaign |-> campaign, uuid |-> uuid, status |-> "draft", retries |-> 0,
     sent_at |-> FALSE, sender_smtp |-> sender_smtp, content |-> TRUE]

\* MessageRecipient(message=, contact=): the defaults of the model
NewRecipient(message, contact) ==
    [message |-> message, contact |-> contact, status |-> "pending",
     sent_at |-> FALSE, opened_at |-> FALSE, clicked_at |-> FALSE,
     error_message |-> "", retry_count |-> 0]

NewCampaign(user, status, scheduled) ==
    [user |-> user, status |-> status, scheduled_at |-> scheduled]

Events == BagCardinality(opens) + BagCardinality(clicks)

MaxEvents == 2

\* Two campaigns of one user with a message each; contact c1 is a recipient of both
TrackSpecInit ==
    /\ SmtpInit
    /\ campaigns = <<NewCampaign("u1", "active", "past"), NewCampaign("u1", "active", "past")>>
    /\ messages = <<NewMessage(1, UuidA, NoAccount), NewMessage(2, UuidB, NoAccount)>>
    /\ recips = <<NewRecipient(1, 1), NewRecipient(2, 1)>>
    /\ opens = EmptyBag
    /\ clicks = EmptyBag
    /\ last = NoOp

Beacon ==
    \E uuid \in Uuids, recipient_id \in RecipientParams, c \in Clients :
        LET r == message_beacon(uuid, recipient_id, c.ip, c.ua)
        IN  /\ BagCardinality(r.opens) + BagCardinality(clicks) <= MaxEvents
            /\ opens' = r.opens
            /\ recips' = r.recips
            /\ last' = [op |-> "beacon", found |-> r.found, rid |-> r.rid,
                        response |-> r.response,
                        uuid |-> uuid, recipient_id |-> recipient_id]
            /\ UNCHANGED <<smtpVars, campaigns, messages, clicks>>

RecordOpen ==
    \E message \in DOMAIN messages, contact \in Contacts \cup {NoContact}, c \in Clients :
        LET r == record_open(message, contact, c.ip, c.ua)
        IN  /\ Events < MaxEvents
            /\ opens' = r.opens
            /\ recips' = r.recips
            /\ last' = [op |-> "record_open", found |-> TRUE, rid |-> r.rid,
                        message |-> message, contact |-> contact]
            /\ UNCHANGED <<smtpVars, campaigns, messages, clicks>>

RecordClick ==
    \E message \in DOMAIN messages, c \in Clients :
        /\ Events < MaxEvents
        /\ clicks' = clicks (+) SetToBag({record_click(message, c.ip, c.ua)})
        /\ last' = [op |-> "record_click", found |-> TRUE]
        /\ UNCHANGED <<smtpVars, campaignVars, opens>>

ClickPost ==
    \E beacon_uuid \in Uuids, c \in Clients :
        LET r == RecordClickView(beacon_uuid, c.ip, c.ua)
        IN  /\ BagCardinality(opens) + BagCardinality(r.clicks) <= MaxEvents
            /\ clicks' = r.clicks
            /\ last' = [op |-> "click_post", found |-> r.found, response |-> r.response]
            /\ UNCHANGED <<smtpVars, campaignVars, opens>>

ClickCreate ==
    \E message \in DOMAIN messages, c \in Clients :
        /\ Events < MaxEvents
        /\ clicks' = clicks (+) SetToBag({DirectClick(message, c.ua)})
        /\ last' = [op |-> "click_create", found |-> TRUE]
        /\ UNCHANGED <<smtpVars, campaignVars, opens>>

\* The delivery side, as the tracking endpoints see it: the first recipient is sent to
RecipientSent ==
    /\ recips[1].status = "pending"
    /\ recips' = [recips EXCEPT ![1] = recipient_mark_sent(@)]
    /\ last' = [op |-> "mark_sent", found |-> TRUE]
    /\ UNCHANGED <<smtpVars, campaigns, messages, trackVars>>

RecipientClicked ==
    /\ recips[1].status \in {"sent", "opened"}
    /\ recips' = [recips EXCEPT ![1] = mark_clicked(@)]
    /\ last' = [op |-> "mark_clicked", found |-> TRUE]
    /\ UNCHANGED <<smtpVars, campaigns, messages, trackVars>>

TrackNext ==
    \/ Beacon
    \/ RecordOpen
    \/ RecordClick
    \/ ClickPost
    \/ ClickCreate
    \/ RecipientSent
    \/ RecipientClicked

TrackSpec == TrackSpecInit /\ [][TrackNext]_vars

\* --------------------------------------------------------------- campaigns

CampaignStatuses == {"draft", "paused", "active", "completed", "failed"}

\* scheduled_at against the clock: not set, not after now, after now
Schedules == {"none", "past", "future"}

MaxLimit == 1

\* The limit argument: None, or an integer
NoLimit == [given |-> FALSE, n |-> 0]
Limits == {NoLimit} \cup {[given |-> TRUE, n |-> k] : k \in -1..MaxLimit}
\* `if limit:`
Truthy(limit) == limit.given /\ limit.n # 0

MinOf(S) == CHOOSE x \in S : \A y \in S : x <= y

\* campaign.messages.first()  (0: None)
FirstMessage(c) ==
    LET ms == {m \in DOMAIN messages : messages[m].campaign = c}
    IN  IF ms = {} THEN 0 ELSE MinOf(ms)

\* SMTPAccount.objects.filter(user=, status='active').first()  (NoAccount: None)
FirstActiveAccount(table, user) ==
    LET as == {a \in DOMAIN table : table[a].user = user /\ table[a].status = "active"}
    IN  IF as = {} THEN NoAccount ELSE MinOf(as)

RecipientsOf(table, m) == {r \in DOMAIN table : table[r].message = m}

\* Campaign.has_message_content
has_message_content(c) ==
    FirstMessage(c) # 0 /\ messages[FirstMessage(c)].content

\* Campaign.has_recipients
has_recipients(c) ==
    FirstMessage(c) # 0 /\ RecipientsOf(recips, FirstMessage(c)) # {}

\* Campaign.can_be_sent
can_be_sent(c) ==
    /\ campaigns[c].status \in {"draft", "paused"}
    /\ has_message_content(c)
    /\ has_recipients(c)

\* The status changes a handler saved, in order: <<from, to>> pairs
Change(from, to) == IF from = to THEN <<>> ELSE <<<<from, to>>>>

\* MessageRecipient.mark_failed, on a row
recipient_mark_failed(row, error_message) ==
    [row EXCEPT !.status = "failed", !.error_message = error_message,
                !.retry_count = @ + 1]

\* send_single_email with send_via_smtp, for recipient r of message m when the
\* mail server does `outcome`: st holds the tables,
\* the result says whether the send succeeded and what became of the accounts
send_single_email(st, m, outcome) ==
    LET user == campaigns[messages[m].campaign].user
        smtp_account == IF messages[m].sender_smtp # NoAccount
                        THEN messages[m].sender_smtp
                        ELSE FirstActiveAccount(st.smtp, user)
    IN  IF smtp_account = NoAccount
        THEN [success |-> FALSE, smtp |-> st.smtp]
        ELSE IF outcome = "ok"
        THEN [success |-> TRUE, smtp |-> st.smtp]
        ELSE IF outcome = "smtp_error"
        THEN [success |-> FALSE,
              smtp |-> [st.smtp EXCEPT ![smtp_account] = mark_failure(@)]]
        ELSE [success |-> FALSE, smtp |-> st.smtp]

\* The for-loop of send_campaign_emails over the recipients `todo` (in id order)
RECURSIVE SendLoop(_, _, _, _)
SendLoop(todo, m, env, st) ==
    IF todo = {} THEN st
    ELSE LET r == MinOf(todo)
             sent == send_single_email(st, m, env[r])
             next == IF sent.success
                     THEN [recips |-> [st.recips EXCEPT ![r] = recipient_mark_sent(@)],
                           smtp |-> sent.smtp,
                           sent_count |-> st.sent_count + 1,
                           failed_count |-> st.failed_count]
                     ELSE [recips |-> [st.recips EXCEPT ![r] = recipient_mark_failed(@, "Send failed")],
                           smtp |-> sent.smtp,
                           sent_count |-> st.sent_count,
                           failed_count |-> st.failed_count + 1]
         IN  SendLoop(todo \ {r}, m, env, next)

\* The status send_campaign_emails leaves the campaign with
StatusAfterRun(status, sent_count, failed_count) ==
    IF sent_count > 0 /\ failed_count = 0 THEN "completed" ELSE status

\* A run that sends whatever the campaign's status and schedule are
SendWithoutChecks(campaign, c, limit, slice, env) ==
    LET m == FirstMessage(c)
        pending == IF m = 0 THEN {}
                   ELSE {r \in RecipientsOf(recips, m) : recips[r].status = "pending"}
        end == SendLoop(pending, m, env,
                        [recips |-> recips, smtp |-> smtp,
                         sent_count |-> 0, failed_count |-> 0])
    IN  [status |-> StatusAfterRun(campaign.status, end.sent_count, end.failed_count),
         recips |-> end.recips, smtp |-> end.smtp,
         result |-> <<end.sent_count, end.failed_count>>,
         ran |-> TRUE, attempted |-> pending]

\* send_campaign_emails(campaign_id, limit) on campaign row `campaign` (id c):
\* `slice` is the rows the sliced queryset returns, `env` what the mail server
\* does with each recipient. ran: the run got past its checks.
send_campaign_emails(campaign, c, limit, slice, env) ==
    LET nothing == [status |-> campaign.status, recips |-> recips, smtp |-> smtp,
                    result |-> <<0, 0>>, ran |-> FALSE, attempted |-> {}]
        m == FirstMessage(c)
    IN  IF campaign.status # "active" THEN nothing
        ELSE IF campaign.scheduled_at = "future" THEN nothing
        ELSE IF m = 0 THEN nothing
        \* recipients[:limit] with a negative limit raises; the outer except returns (0, 0)
        ELSE IF Truthy(limit) /\ limit.n < 0 THEN nothing
        ELSE LET todo == IF Truthy(limit) THEN slice
                         ELSE {r \in RecipientsOf(recips, m) : recips[r].status = "pending"}
                 end == SendLoop(todo, m, env,
                                 [recips |-> recips, smtp |-> smtp,
                                  sent_count |-> 0, failed_count |-> 0])
             IN  [status |-> StatusAfterRun(campaign.status, end.sent_count, end.failed_count),
                  recips |-> end.recips, smtp |-> end.smtp,
                  result |-> <<end.sent_count, end.failed_count>>,
                  ran |-> TRUE, attempted |-> todo]

\* The slices recipients[:limit] may return: the queryset has no ordering
Slices(c, limit) ==
    LET m == FirstMessage(c)
        pending == IF m = 0 THEN {}
                   ELSE {r \in RecipientsOf(recips, m) : recips[r].status = "pending"}
    IN  IF Truthy(limit) /\ limit.n > 0
        THEN {S \in SUBSET pending : Cardinality(S) = Min(limit.n, Cardinality(pending))}
        ELSE {{}}

\* The recipients a run of send_campaign_emails sends to (none when its checks stop it)
Attempted(campaign, c, limit, slice) ==
    send_campaign_emails(campaign, c, limit, slice, [r \in DOMAIN recips |-> "ok"]).attempted

\* The accounts' failure streaks after a run that changed the accounts to `table`
StreakAfter(table) ==
    [a \in DOMAIN streak |->
        IF streak[a] >= 0 THEN streak[a] + (table[a].failure_count - smtp[a].failure_count)
        ELSE streak[a]]

\* Message.add_recipients: the rows bulk_create adds for the contacts
RECURSIVE NewRecipients(_, _)
NewRecipients(m, contacts) ==
    IF contacts = {} THEN <<>>
    ELSE <<NewRecipient(m, MinOf(contacts))>> \o NewRecipients(m, contacts \ {MinOf(contacts)})

\* A toggle that reopens a finished campaign
ToggleReopensFinished(c) ==
    LET current_status == campaigns[c].status
    IN  IF current_status \in {"paused", "completed", "failed"} THEN "active"
        ELSE IF current_status = "active" THEN "paused"
        ELSE current_status

\* CampaignToggleStatusView.post: the status it saves
ToggleStatus(c) ==
    LET current_status == campaigns[c].status
    IN  IF current_status = "draft"
        THEN IF campaigns[c].scheduled_at = "none" \/ ~has_message_content(c) \/ ~has_recipients(c)
             THEN current_status
             ELSE "active"
        ELSE IF current_status = "active" THEN "paused"
        ELSE IF current_status = "paused" THEN "active"
        ELSE current_status

\* CampaignForm.save, editing: the status it saves. still_future: scheduled_at > timezone.now()
FormStatus(status, schedule_type, still_future) ==
    IF schedule_type = "now" /\ status \in {"draft", "paused"} THEN "active"
    ELSE IF schedule_type = "later" /\ status = "active" /\ still_future THEN "draft"
    ELSE status

CampaignToggle ==
    \E c \in DOMAIN campaigns :
        LET to == ToggleStatus(c)
        IN  /\ campaigns' = [campaigns EXCEPT ![c].status = to]
            /\ last' = [op |-> "toggle", campaign |-> c,
                        changes |-> Change(campaigns[c].status, to)]
            /\ UNCHANGED <<smtpVars, messages, recips, trackVars>>

\* CampaignPauseView.post
CampaignPause ==
    \E c \in DOMAIN campaigns :
        LET to == IF campaigns[c].status # "active" THEN campaigns[c].status ELSE "paused"
        IN  /\ campaigns' = [campaigns EXCEPT ![c].status = to]
            /\ last' = [op |-> "pause", campaign |-> c,
                        changes |-> Change(campaigns[c].status, to)]
            /\ UNCHANGED <<smtpVars, messages, recips, trackVars>>

\* CampaignResumeView.post
CampaignResume ==
    \E c \in DOMAIN campaigns :
        LET to == IF campaigns[c].status # "paused" THEN campaigns[c].status ELSE "active"
        IN  /\ campaigns' = [campaigns EXCEPT ![c].status = to]
            /\ last' = [op |-> "resume", campaign |-> c,
                        changes |-> Change(campaigns[c].status, to)]
            /\ UNCHANGED <<smtpVars, messages, recips, trackVars>>

\* CampaignUpdateView with CampaignForm.save: the schedule, the status, the
\* message and a fresh recipient list of the contacts selected
CampaignFormSave ==
    \E c \in DOMAIN campaigns, schedule_type \in {"now", "later"},
       still_future \in BOOLEAN, selected \in SUBSET Contacts :
        LET to == FormStatus(campaigns[c].status, schedule_type, still_future)
            m == FirstMessage(c)
            account == FirstActiveAccount(smtp, campaigns[c].user)
            \* Campaign.create_message: update the message, or create one
            msgs == IF m # 0
                    THEN [messages EXCEPT ![m].content = TRUE,
                            ![m].sender_smtp = IF account # NoAccount THEN account ELSE @]
                    ELSE Append(messages, NewMessage(c, UuidA, account))
            mid == IF m # 0 THEN m ELSE Len(messages) + 1
            \* message.recipients.all().delete()
            kept == SelectSeq(recips, LAMBDA row : row.message # mid)
        IN  /\ (schedule_type = "now" => still_future)
            /\ campaigns' = [campaigns EXCEPT ![c].status = to,
                                ![c].scheduled_at = IF still_future THEN "future" ELSE "past"]
            /\ messages' = msgs
            /\ recips' = kept \o NewRecipients(mid, selected)
            /\ last' = [op |-> "form_save", campaign |-> c,
                        changes |-> Change(campaigns[c].status, to)]
            /\ UNCHANGED <<smtpVars, trackVars>>

\* CampaignSendNowView.post: activate, then send_campaign_emails(campaign.id)
CampaignSendNow ==
    \E c \in DOMAIN campaigns :
        IF ~can_be_sent(c)
        THEN /\ last' = [op |-> "send_now", campaign |-> c, changes |-> <<>>,
                         limit |-> NoLimit, ran |-> FALSE, result |-> <<0, 0>>,
                         attempted |-> {}]
             /\ UNCHANGED <<smtpVars, campaignVars, trackVars>>
        ELSE LET active == [campaigns[c] EXCEPT !.status = "active", !.scheduled_at = "past"]
             IN  \E env \in [Attempted(active, c, NoLimit, {}) -> SendOutcomes] :
                    LET r == send_campaign_emails(active, c, NoLimit, {}, env)
                    IN  /\ WithinFailureBound(r.smtp)
                        /\ campaigns' = [campaigns EXCEPT ![c] = [active EXCEPT !.status = r.status]]
                        /\ recips' = r.recips
                        /\ smtp' = r.smtp
                        /\ streak' = StreakAfter(r.smtp)
                        /\ last' = [op |-> "send_now", campaign |-> c,
                                    changes |-> Change(campaigns[c].status, "active")
                                                  \o Change("active", r.status),
                                    limit |-> NoLimit, ran |-> r.ran, result |-> r.result,
                                    attempted |-> r.attempted]
                        /\ UNCHANGED <<messages, trackVars>>

\* send_campaign_emails(campaign_id, limit), as the campaign processor calls it
SendCampaignEmails ==
    \E c \in DOMAIN campaigns, limit \in Limits :
        \E slice \in Slices(c, limit) :
          \E env \in [Attempted(campaigns[c], c, limit, slice) -> SendOutcomes] :
            LET r == send_campaign_emails(campaigns[c], c, limit, slice, env)
            IN  /\ WithinFailureBound(r.smtp)
                /\ campaigns' = [campaigns EXCEPT ![c].status = r.status]
                /\ recips' = r.recips
                /\ smtp' = r.smtp
                /\ streak' = StreakAfter(r.smtp)
                /\ last' = [op |-> "send_campaign_emails", campaign |-> c,
                            changes |-> Change(campaigns[c].status, r.status),
                            limit |-> limit, ran |-> r.ran, result |-> r.result,
                            attempted |-> r.attempted]
                /\ UNCHANGED <<messages, trackVars>>

\* -- adding recipients

\* The lists of contacts a caller may pass, repeats included
ContactLists == UNION {[1..n -> Contacts] : n \in 0..MaxContacts}

\* Meta.unique_together = ['message', 'contact'], on a table
UniqueTogether(table) ==
    \A r, q \in DOMAIN table :
        (table[r].message = table[q].message /\ table[r].contact = table[q].contact) => r = q

\* A bulk_create on a table without the unique constraint
AddRecipientsUnchecked(m, contacts) ==
    [raised |-> FALSE,
     recips |-> recips \o [i \in 1..Len(contacts) |-> NewRecipient(m, contacts[i])]]

\* Message.add_recipients(contacts): bulk_create inserts every row or, on
\* IntegrityError, none
add_recipients(m, contacts) ==
    LET after == recips \o [i \in 1..Len(contacts) |-> NewRecipient(m, contacts[i])]
    IN  IF UniqueTogether(after)
        THEN [raised |-> FALSE, recips |-> after]
        ELSE [raised |-> TRUE, recips |-> recips]

\* Message.add_recipient(contact): create inserts the row or raises IntegrityError
add_recipient(m, contact) ==
    LET after == Append(recips, NewRecipient(m, contact))
    IN  IF UniqueTogether(after)
        THEN [raised |-> FALSE, recips |-> after]
        ELSE [raised |-> TRUE, recips |-> recips]

\* message.add_recipient(contact)
AddRecipient ==
    \E m \in DOMAIN messages, contact \in Contacts :
        LET r == add_recipient(m, contact)
        IN  /\ recips' = r.recips
            /\ last' = [op |-> "add_recipient", message |-> m, contacts |-> <<contact>>,
                        raised |-> r.raised, changes |-> <<>>]
            /\ UNCHANGED <<smtpVars, campaigns, messages, trackVars>>

\* message.add_recipients(contacts)
AddRecipients ==
    \E m \in DOMAIN messages, contacts \in ContactLists :
        LET r == add_recipients(m, contacts)
        IN  /\ recips' = r.recips
            /\ last' = [op |-> "add_recipients", message |-> m, contacts |-> contacts,
                        raised |-> r.raised, changes |-> <<>>]
            /\ UNCHANGED <<smtpVars, campaigns, messages, trackVars>>

\* -- the process_campaigns command

DEFAULT_MAX_RETRIES == 3

\* The names campaigns/tasks.py defines
TasksNames ==
    {"send_campaign_emails", "send_single_email", "send_via_smtp", "get_current_site_url"}

\* The names process_campaigns.py imports from campaigns.tasks
CommandImports == {"send_campaign_emails", "retry_failed_emails", "check_campaign_status"}

\* Whether the command module can be imported
CommandLoads == CommandImports \subseteq TasksNames

\* retry_failed_emails(campaign_id, max_retries), which tasks.py does not
\* define: as the command describes it, a new attempt for each failed
\* recipient of the campaign's message that has retries left
retry_failed_emails(c, max_retries, env) ==
    LET m == FirstMessage(c)
        todo == IF m = 0 THEN {}
                ELSE {r \in RecipientsOf(recips, m) :
                        recips[r].status = "failed" /\ recips[r].retry_count < max_retries}
        end == SendLoop(todo, m, env,
                        [recips |-> recips, smtp |-> smtp, sent_count |-> 0, failed_count |-> 0])
    IN  [recips |-> end.recips, smtp |-> end.smtp, retried |-> todo,
         result |-> <<Cardinality(todo), end.sent_count>>]

\* manage.py process_campaigns --only-retry --campaign-id c --max-retries k
ProcessCampaigns ==
    \E c \in DOMAIN campaigns, max_retries \in {1, DEFAULT_MAX_RETRIES} :
        IF ~CommandLoads
        \* ImportError when the command module is loaded: handle() never runs
        THEN /\ last' = [op |-> "process_campaigns", campaign |-> c, changes |-> <<>>,
                         loaded |-> FALSE, max_retries |-> max_retries, retried |-> {}]
             /\ UNCHANGED <<smtpVars, campaignVars, trackVars>>
        ELSE \E env \in [DOMAIN recips -> SendOutcomes] :
                LET r == retry_failed_emails(c, max_retries, env)
                IN  /\ WithinFailureBound(r.smtp)
                    /\ recips' = r.recips
                    /\ smtp' = r.smtp
                    /\ streak' = StreakAfter(r.smtp)
                    /\ last' = [op |-> "process_campaigns", campaign |-> c, changes |-> <<>>,
                                loaded |-> TRUE, max_retries |-> max_retries,
                                retried |-> r.retried]
                    /\ UNCHANGED <<campaigns, messages, trackVars>>

\* The clock passes a campaign's scheduled time
ClockPasses ==
    \E c \in DOMAIN campaigns :
        /\ campaigns[c].scheduled_at = "future"
        /\ campaigns' = [campaigns EXCEPT ![c].scheduled_at = "past"]
        /\ last' = [op |-> "clock", campaign |-> c, changes |-> <<>>]
        /\ UNCHANGED <<smtpVars, messages, recips, trackVars>>

CampaignNext ==
    \/ CampaignToggle
    \/ CampaignPause
    \/ CampaignResume
    \/ CampaignFormSave
    \/ CampaignSendNow
    \/ SendCampaignEmails
    \/ ProcessCampaigns
    \/ ClockPasses

\* One campaign of user u1, as create_campaign(user, name, scheduled_at, status) leaves it, in any
\* status; the user has no SMTP account or an active one
CampaignSpecInit ==
    /\ \E status \in CampaignStatuses, scheduled \in {"none", "past"} :
        campaigns = <<NewCampaign("u1", status, scheduled)>>
    /\ messages = <<>>
    /\ recips = <<>>
    /\ \E n \in 0..1 :
        /\ smtp = [a \in 1..n |-> NewAccount("u1", NoGroup)]
        /\ streak = [a \in 1..n |-> 0]
    /\ opens = EmptyBag
    /\ clicks = EmptyBag
    /\ last = NoOp

CampaignSpec == CampaignSpecInit /\ [][CampaignNext]_vars

\* -- the recipient list of a message

\* recipient.mark_sent() or recipient.mark_opened() on a recipient
RecipientStatusChange ==
    \E r \in DOMAIN recips, method \in {"mark_sent", "mark_opened"} :
        /\ recips' = [recips EXCEPT ![r] =
                        IF method = "mark_sent" THEN recipient_mark_sent(@)
                        ELSE mark_opened(@)]
        /\ last' = [op |-> method, recipient |-> r, changes |-> <<>>]
        /\ UNCHANGED <<smtpVars, campaigns, messages, trackVars>>

RecipientNext ==
    \/ AddRecipient
    \/ AddRecipients
    \/ CampaignFormSave
    \/ RecipientStatusChange

\* A draft campaign of user u1 with its message and no recipient yet
RecipientSpecInit ==
    /\ SmtpInit
    /\ campaigns = <<NewCampaign("u1", "draft", "past")>>
    /\ messages = <<NewMessage(1, UuidA, NoAccount)>>
    /\ recips = <<>>
    /\ opens = EmptyBag
    /\ clicks = EmptyBag
    /\ last = NoOp

RecipientSpec == RecipientSpecInit /\ [][RecipientNext]_vars

\* -------------------------------------------------------------- plan limits

MaxCampaigns == 4

FREE_ACTIVE_CAMPAIGNS == 3

\* The users of the plan checks: u3 has no plan
PlanUsers == Users \cup {"u3"}
NoPlan == "none"

\* user.plans.last(): the plan type of the user's latest plan
current_plan ==
    [user \in PlanUsers |->
        IF user = "u1" THEN "free" ELSE IF user = "u2" THEN "premium" ELSE NoPlan]

\* DEFAULT_LIMITS[...]["active_campaigns"], None being "no limit"
DEFAULT_LIMITS ==
    [free |-> [given |-> TRUE, n |-> FREE_ACTIVE_CAMPAIGNS], premium |-> NoLimit]

\* PlanManager.get_limits(plan_type)["active_campaigns"]
get_limits(plan_type) ==
    IF plan_type \in DOMAIN DEFAULT_LIMITS THEN DEFAULT_LIMITS[plan_type]
    ELSE DEFAULT_LIMITS["free"]

\* user.campaigns.filter(status__in=statuses).count()
CountCampaigns(user, statuses) ==
    Cardinality({c \in DOMAIN campaigns :
                    campaigns[c].user = user /\ campaigns[c].status \in statuses})

\* A limit check that lets the user go one campaign over
RefusesOverLimit(user) ==
    LET plan_limit == get_limits(IF current_plan[user] # NoPlan THEN current_plan[user] ELSE "free")
    IN  plan_limit.given /\ CountCampaigns(user, {"draft", "active"}) > plan_limit.n

\* CampaignManager.create_campaign: whether the plan limit refuses the user
CreateRefused(user) ==
    LET plan_limit == get_limits(IF current_plan[user] # NoPlan THEN current_plan[user] ELSE "free")
    IN  plan_limit.given /\ CountCampaigns(user, {"draft", "active"}) >= plan_limit.n

\* CampaignManager.create_campaign(user, name, scheduled_at, status)
create_campaign(user, scheduled_at, status) ==
    IF CreateRefused(user)
    THEN [raised |-> TRUE, campaigns |-> campaigns]
    ELSE [raised |-> FALSE,
          campaigns |-> Append(campaigns, NewCampaign(user, status, scheduled_at))]

\* PlanManager.can_create_campaign(user)
can_create_campaign(user) ==
    IF current_plan[user] = NoPlan THEN FALSE
    ELSE LET limit == get_limits(current_plan[user])
         IN  IF ~limit.given THEN TRUE
             ELSE CountCampaigns(user, {"draft", "active", "paused"}) < limit.n

\* Campaign.objects.create_campaign(user, name, scheduled_at, status) with a
\* name and a status full_clean accepts
CreateCampaign ==
    \E user \in PlanUsers, status \in CampaignStatuses :
        \* scheduled_at or timezone.now()
        LET r == create_campaign(user, "past", status)
        IN  /\ Len(r.campaigns) <= MaxCampaigns
            /\ campaigns' = r.campaigns
            /\ last' = [op |-> "create_campaign", user |-> user, raised |-> r.raised,
                        changes |-> <<>>]
            /\ UNCHANGED <<smtpVars, messages, recips, trackVars>>

PlanNext == CreateCampaign

\* No campaign yet
PlanSpecInit ==
    /\ SmtpInit
    /\ NoTables
    /\ last = NoOp

PlanSpec == PlanSpecInit /\ [][PlanNext]_vars

\* ----------------------------------------------------------- message queue

MAX_RETRIES == 3
DEFAULT_BATCH_SIZE == 20
MaxRequeues == 4

\* Campaign declares no target_email field or property: reading
\* message.campaign.target_email raises AttributeError
CampaignHasTargetEmail == FALSE

\* Message.mark_sent, on a row
message_mark_sent(row) == [row EXCEPT !.status = "sent", !.sent_at = TRUE]

\* Message.mark_failed, on a row
message_mark_failed(row) == [row EXCEPT !.status = "failed"]

\* Message.retry, on a row
message_retry(row) == [row EXCEPT !.status = "retried", !.retries = @ + 1]

\* The except branch of execute_message_send
AfterSendRaised(row) ==
    IF row.retries >= 3 THEN message_mark_failed(row) ELSE message_retry(row)

\* execute_message_send(message) over the account table `table`, when the
\* mail server would do `outcome`: the set of possible results
execute_message_send(row, table, outcome) ==
    IF row.status \notin {"queued", "retried"}
    THEN {[success |-> FALSE, row |-> row, smtp |-> table]}
    ELSE IF ~CampaignHasTargetEmail
    \* the arguments of send_email are evaluated inside the try
    THEN {[success |-> FALSE, row |-> AfterSendRaised(row), smtp |-> table]}
    ELSE { IF s.raised
           THEN [success |-> FALSE, row |-> AfterSendRaised(row), smtp |-> s.smtp]
           ELSE [success |-> TRUE, row |-> message_mark_sent(row), smtp |-> s.smtp]
           : s \in UNION { send_email(table, campaigns[row.campaign].user, NoGroup,
                                       row.sender_smtp, decrypted, outcome)
                            : decrypted \in DecryptOutcomes } }

\* The body of the loop of run_message_queue for one message, after execute_message_send
AfterExecute(st, m, x) ==
    IF x.success
    THEN [messages |-> [st.messages EXCEPT ![m] = message_mark_sent(x.row)],
          smtp |-> x.smtp,
          results |-> [st.results EXCEPT !.processed = @ + 1, !.sent = @ + 1]]
    ELSE LET retries == x.row.retries + 1
             failed == retries >= MAX_RETRIES
         IN  [messages |-> [st.messages EXCEPT ![m] =
                                [x.row EXCEPT !.retries = retries,
                                    !.status = IF failed THEN "failed" ELSE "retried"]],
              smtp |-> x.smtp,
              results |-> [st.results EXCEPT !.processed = @ + 1,
                              !.failed = IF failed THEN @ + 1 ELSE @]]

\* The loop of run_message_queue over the messages `todo`, oldest first: the
\* set of states it may end in
RECURSIVE QueueLoop(_, _, _)
QueueLoop(todo, env, st) ==
    IF todo = {} THEN {st}
    ELSE LET m == MinOf(todo)
         IN  UNION { QueueLoop(todo \ {m}, env, AfterExecute(st, m, x))
                     : x \in execute_message_send(st.messages[m], st.smtp, env[m]) }

\* get_messages_ready_for_sending(limit): the oldest `limit` queued messages
get_messages_ready_for_sending(limit) ==
    LET queued == {m \in DOMAIN messages : messages[m].status = "queued"}
    IN  {m \in queued : Cardinality({k \in queued : k < m}) < limit}

\* run_message_queue(batch_size): the set of states it may end in
run_message_queue(batch_size, env) ==
    QueueLoop(get_messages_ready_for_sending(batch_size), env,
              [messages |-> messages, smtp |-> smtp,
               results |-> [processed |-> 0, sent |-> 0, failed |-> 0]])

\* message.status = "queued"; message.save(update_fields=["status"])
Enqueue ==
    \E m \in DOMAIN messages :
        /\ messages[m].status \in {"draft", "retried"}
        /\ messages[m].retries < MaxRequeues
        /\ messages' = [messages EXCEPT ![m].status = "queued"]
        /\ last' = [op |-> "enqueue", message |-> m]
        /\ UNCHANGED <<smtpVars, campaigns, recips, trackVars>>

\* The process_queue command, or run_message_queue(batch_size)
RunMessageQueue ==
    \E batch_size \in {1, DEFAULT_BATCH_SIZE}, env \in [DOMAIN messages -> SendOutcomes] :
        \E end \in run_message_queue(batch_size, env) :
            /\ WithinFailureBound(end.smtp)
            /\ messages' = end.messages
            /\ smtp' = end.smtp
            /\ streak' = StreakAfter(end.smtp)
            /\ last' = [op |-> "run_message_queue",
                        processed |-> get_messages_ready_for_sending(batch_size),
                        env |-> env, results |-> end.results]
            /\ UNCHANGED <<campaigns, recips, trackVars>>

QueueNext ==
    \/ Enqueue
    \/ RunMessageQueue

\* One campaign with two draft messages, the first with a sender account, as
\* the queue's tests set them up
QueueSpecInit ==
    /\ campaigns = <<NewCampaign("u1", "draft", "none")>>
    /\ smtp = <<NewAccount("u1", NoGroup)>>
    /\ streak = <<0>>
    /\ messages = <<NewMessage(1, UuidA, 1), NewMessage(1, UuidB, NoAccount)>>
    /\ recips = <<>>
    /\ opens = EmptyBag
    /\ clicks = EmptyBag
    /\ last = NoOp

QueueSpec == QueueSpecInit /\ [][QueueNext]_vars

\* ------------------------------------------------------------------ claims

\* C1: an account that starts 'active' with failure_count 0 and takes k
\* mark_failure calls with no reset in between has failure_count = k; it is
\* still 'active' for k = 1, 2 and 'disabled' at k = 3.
C1_FailureCircuitBreaker ==
    \A a \in AccountIds :
        streak[a] >= 1 =>
            /\ smtp[a].failure_count = streak[a]
            /\ (streak[a] < 3 => smtp[a].status = "active")
            /\ (streak[a] = 3 => smtp[a].status = "disabled")

C1_Witness ==
    \E a \in AccountIds :
        streak[a] = 3 /\ smtp[a].status = "disabled" /\ last.op = "mark_failure"

\* C2: get_smtp_for_sending without a specific account returns only an active
\* account of the user (of the rotation group when one is given) and raises
\* exactly when there is none; with a specific account it returns that
\* account exactly when it is active and raises otherwise.
C2_RotationSelection ==
    last.op = "get_smtp_for_sending" =>
        IF last.specific_account = NoAccount
        THEN /\ last.ok =>
                    /\ last.acct \in AccountIds
                    /\ smtp[last.acct].user = last.user
                    /\ smtp[last.acct].status = "active"
                    /\ (last.rotation_group # NoGroup =>
                            smtp[last.acct].group = last.rotation_group)
             /\ ~last.ok <=>
                    ~\E a \in AccountIds :
                        /\ smtp[a].user = last.user
                        /\ smtp[a].status = "active"
                        /\ (last.rotation_group # NoGroup =>
                                smtp[a].group = last.rotation_group)
        ELSE /\ last.ok <=> smtp[last.specific_account].status = "active"
             /\ last.ok => last.acct = last.specific_account

C2_Witness ==
    /\ last.op = "get_smtp_for_sending"
    /\ last.specific_account = NoAccount
    /\ last.rotation_group = "g1"
    /\ last.ok
    /\ \E a \in AccountIds : a # last.acct /\ smtp[a].user = last.user /\ smtp[a].status # "active"

\* C3: every GET of the beacon is answered with the fixed 200 image/png
\* pixel, whatever the uuid and the 'recipient' parameter are.
C3_BeaconAlwaysPixel ==
    last.op = "beacon" => last.response = PixelResponse

\* C4: for the beacon and for the click endpoint, the response to a request
\* with the uuid of an existing message equals the response to the same
\* request with the uuid of no message.
C4_NoExistenceLeak ==
    \A u \in Uuids, v \in Uuids :
        (MessagesByUuid(u) # {} /\ MessagesByUuid(v) = {}) =>
            \A c \in Clients :
                /\ \A p \in RecipientParams :
                        message_beacon(u, p, c.ip, c.ua).response
                            = message_beacon(v, p, c.ip, c.ua).response
                /\ RecordClickView(u, c.ip, c.ua).response
                        = RecordClickView(v, c.ip, c.ua).response

Chars(s) == {s[i] : i \in DOMAIN s}

PrivateRow(row) ==
    /\ row.ip_hash \in {NULL} \cup {Sha256(ip) : ip \in RawIps \ {""}}
    /\ row.ip_hash \notin RawIps
    /\ "/" \notin Chars(row.user_agent_family)
    /\ Len(row.user_agent_family) <= 50

C10_UnknownBeaconChangesNothing ==
    [][(last'.op = "beacon" /\ ~last'.found) =>
            UNCHANGED <<opens, clicks, recips, messages, campaigns, smtp>>]_vars

C10_Witness ==
    /\ last.op = "beacon"
    /\ ~last.found
    /\ last.response = PixelResponse
    /\ Events > 0

\* The status changes the lifecycle names
LifecycleChanges ==
    {<<"draft", "active">>, <<"active", "paused">>, <<"paused", "active">>,
     <<"active", "completed">>, <<"active", "failed">>}

RunOf(before, after, c) ==
    LET m == FirstMessage(c)
        mine == RecipientsOf(before, m)
    IN  [pending |-> {r \in mine : before[r].status = "pending"},
         changed |-> {r \in DOMAIN before : after[r] # before[r]},
         sent    |-> {r \in mine : before[r].status # "sent" /\ after[r].status = "sent"},
         failed  |-> {r \in mine : before[r].status # "failed" /\ after[r].status = "failed"}]

\* C6: a run of send_campaign_emails attempts only pending recipients, at most
\* `limit` of them when a limit is given; each attempted recipient ends sent or
\* failed, every other recipient is unchanged, and the returned pair counts
\* the recipients moved to sent and to failed
C6_RunAttemptsPending ==
    [][(last'.op \in {"send_campaign_emails", "send_now"} /\ last'.ran) =>
        LET run == RunOf(recips, recips', last'.campaign)
        IN  /\ DOMAIN recips' = DOMAIN recips
            /\ run.changed \subseteq run.pending
            /\ run.changed = last'.attempted
            /\ (last'.limit.given => Cardinality(run.changed) <= last'.limit.n)
            /\ \A r \in run.changed : recips'[r].status \in {"sent", "failed"}
            /\ last'.result = <<Cardinality(run.sent), Cardinality(run.failed)>>]_vars

\* C6, amended: as C6, with the limit applying only when it is a positive
\* number; with no limit, or a limit of 0, the run attempts every pending recipient
C6_RunAttemptsPendingPositiveLimit ==
    [][(last'.op \in {"send_campaign_emails", "send_now"} /\ last'.ran) =>
        LET run == RunOf(recips, recips', last'.campaign)
        IN  /\ DOMAIN recips' = DOMAIN recips
            /\ run.changed \subseteq run.pending
            /\ run.changed = last'.attempted
            /\ IF Truthy(last'.limit)
               THEN Cardinality(run.changed) <= last'.limit.n
               ELSE run.changed = run.pending
            /\ \A r \in run.changed : recips'[r].status \in {"sent", "failed"}
            /\ last'.result = <<Cardinality(run.sent), Cardinality(run.failed)>>]_vars

\* C6 witness: a run with limit 1 has sent one recipient and left another pending
C6_Witness ==
    /\ last.op = "send_campaign_emails"
    /\ last.ran
    /\ last.limit = [given |-> TRUE, n |-> 1]
    /\ last.result = <<1, 0>>
    /\ \E r \in DOMAIN recips :
        /\ recips[r].message = FirstMessage(last.campaign)
        /\ recips[r].status = "pending"

\* C7: each failed send attempt in run_message_queue raises the message's
\* retries by exactly one, and leaves it "retried" while retries is below 3
\* and "failed" once retries has reached 3
C7_OneRetryPerFailure ==
    [][last'.op = "run_message_queue" =>
        \A m \in last'.processed :
            messages'[m].status # "sent" =>
                /\ messages'[m].retries = messages[m].retries + 1
                /\ messages'[m].status =
                        IF messages'[m].retries >= MAX_RETRIES THEN "failed" ELSE "retried"]_vars

\* The mail server accepts the message m and an account may carry it
SendSucceeds(m, env) ==
    /\ env[m] = "ok"
    /\ \E p \in get_smtp_for_sending(smtp, campaigns[messages[m].campaign].user,
                                     NoGroup, messages[m].sender_smtp) : p.ok

\* C8: a queued message whose SMTP send succeeds ends "sent" with sent_at set
\* and retries unchanged, and is counted once in processed and once in sent
C8_SuccessfulSendIsSent ==
    [][last'.op = "run_message_queue" =>
        LET ok == {m \in last'.processed : SendSucceeds(m, last'.env)}
        IN  /\ \A m \in ok :
                /\ messages'[m].status = "sent"
                /\ messages'[m].sent_at
                /\ messages'[m].retries = messages[m].retries
            /\ last'.results.processed = Cardinality(last'.processed)
            /\ last'.results.sent = Cardinality(ok)]_vars

\* The recipients an open identifies: by the beacon's recipient parameter, or
\* by the contact given to record_open
IdentifiedBy(op, message) ==
    IF op.op = "record_open"
    THEN {r \in DOMAIN recips : recips[r].message = message /\ recips[r].contact = op.contact}
    ELSE {r \in DOMAIN recips :
            /\ IsNumber(op.recipient_id)
            /\ r = IdOfText[op.recipient_id]
            /\ recips[r].message = message}

\* C11: every open recorded for an existing message (by record_open, or by a
\* beacon hit the view answers) adds exactly one MessageOpen, repeated opens
\* included; when the open identifies a recipient of that message the record
\* is linked to it and the recipient is "opened" with opened_at set
\* afterwards, otherwise the record has no recipient
C11_OneRecordPerOpen ==
    [][(\/ last'.op = "record_open"
        \/ last'.op = "beacon" /\ last'.found /\ last'.response = PixelResponse) =>
        LET message == IF last'.op = "record_open" THEN last'.message
                       ELSE CHOOSE m \in MessagesByUuid(last'.uuid) : TRUE
            who == IdentifiedBy(last', message)
        IN  \E row \in BagToSet(opens') :
                /\ opens' = opens (+) SetToBag({row})
                /\ row.message = message
                /\ IF who # {}
                   THEN /\ row.recipient \in who
                        /\ recips'[row.recipient].status = "opened"
                        /\ recips'[row.recipient].opened_at
                   ELSE /\ row.recipient = 0
                        /\ recips' = recips]_vars

\* C11 witness: the same open of a recipient was recorded twice and is stored twice
C11_Witness ==
    /\ last.op \in {"beacon", "record_open"}
    /\ last.rid # 0
    /\ recips[last.rid].status = "opened"
    /\ \E row \in BagToSet(opens) : row.recipient = last.rid /\ CopiesIn(row, opens) = 2

\* C12: when decrypting the stored password raises or yields "", get_password
\* returns "" and the account's stored status becomes "failed"
C12_GetPasswordFailsAccount ==
    (last.op = "get_password" /\ last.decrypted \in {"empty", "raises"}) =>
        /\ ~last.raised
        /\ last.returned = ""
        /\ smtp[last.acct].status = "failed"

\* C13: send_email with an account whose password decrypts to "" sends
\* nothing, raises a ValidationError and leaves the account "failed"
C13_EmptyPasswordRefused ==
    (last.op = "send_email" /\ last.acct # NoAccount /\ last.decrypted = "empty") =>
        /\ ~last.sent
        /\ last.raised
        /\ last.error = "ValidationError"
        /\ smtp[last.acct].status = "failed"

\* C14: send_email, once an account is chosen: on success it returns True and
\* leaves the account with failure_count 0 and status "active"; on an
\* exception in the exchange it adds exactly one to the account's
\* failure_count, disables the account when the count reaches 3, and re-raises
C14_SendEmailKeepsCount ==
    [][(last'.op = "send_email" /\ last'.acct # NoAccount) =>
        LET a == last'.acct
        IN  /\ \A b \in AccountIds \ {a} : smtp'[b] = smtp[b]
            /\ IF last'.sent
               THEN /\ ~last'.raised
                    /\ smtp'[a].failure_count = 0
                    /\ smtp'[a].status = "active"
               ELSE /\ last'.raised
                    /\ smtp'[a].failure_count = smtp[a].failure_count + 1
                    /\ smtp'[a].status =
                            IF smtp'[a].failure_count >= 3 THEN "disabled" ELSE smtp[a].status]_vars

\* C14 witness: a third failed send in a row has disabled the chosen account
C14_Witness ==
    /\ last.op = "send_email"
    /\ last.acct # NoAccount
    /\ last.raised
    /\ smtp[last.acct].failure_count = 3
    /\ smtp[last.acct].status = "disabled"

\* C15: a run of the process_campaigns command sends again to every recipient
\* whose status is "failed" and who has had fewer than max-retries attempts,
\* and to no recipient who has had max-retries
C15_CommandRetriesFailed ==
    [][last'.op = "process_campaigns" =>
        LET m == FirstMessage(last'.campaign)
        IN  \A r \in DOMAIN recips :
                (m # 0 /\ recips[r].message = m /\ recips[r].status = "failed") =>
                    IF recips[r].retry_count < last'.max_retries
                    THEN /\ r \in last'.retried
                         /\ \/ recips'[r].status = "sent"
                            \/ recips'[r].retry_count = recips[r].retry_count + 1
                    ELSE recips'[r] = recips[r]]_vars

\* The user's campaigns that count toward the limit of create_campaign
CountedCampaigns(user) ==
    {c \in DOMAIN campaigns :
        campaigns[c].user = user /\ campaigns[c].status \in {"draft", "active"}}

\* C16: create_campaign raises and creates no campaign when the user's draft
\* and active campaigns number at least the plan's active_campaigns limit (3
\* for free); otherwise, and always for premium, it creates the campaign
C16_CreateEnforcesPlanLimit ==
    [][last'.op = "create_campaign" =>
        LET user == last'.user
            limited == current_plan[user] # "premium"
        IN  IF limited /\ Cardinality(CountedCampaigns(user)) >= 3
            THEN last'.raised /\ campaigns' = campaigns
            ELSE /\ ~last'.raised
                 /\ Len(campaigns') = Len(campaigns) + 1
                 /\ SubSeq(campaigns', 1, Len(campaigns)) = campaigns
                 /\ campaigns'[Len(campaigns')].user = user]_vars

\* C16 witness: the free user, at the limit, was refused, and the premium
\* user holds more campaigns than the free limit
C16_Witness ==
    /\ last.op = "create_campaign"
    /\ last.user = "u1"
    /\ last.raised
    /\ Cardinality(CountedCampaigns("u1")) = 3

\* C17: for a user with a plan, can_create_campaign is True exactly when
\* create_campaign would not raise the plan-limit error
C17_CheckAgreesWithCreate ==
    \A user \in PlanUsers :
        current_plan[user] # NoPlan =>
            (can_create_campaign(user) <=> ~create_campaign(user, "past", "draft").raised)

\* C18: after any sequence of add_recipient, add_recipients, form saves and
\* recipient status changes there is at most one MessageRecipient for each
\* (message, contact) pair; an attempt to create a second one fails and
\* leaves the recipients unchanged
C18_OneRecipientPerPair ==
    [][/\ \A r, q \in DOMAIN recips' :
            (recips'[r].message = recips'[q].message /\ recips'[r].contact = recips'[q].contact)
                => r = q
       /\ last'.op \in {"add_recipient", "add_recipients"} =>
            LET given == last'.contacts
                second == \E i \in DOMAIN given :
                            \/ \E r \in DOMAIN recips :
                                  recips[r].message = last'.message /\ recips[r].contact = given[i]
                            \/ \E j \in DOMAIN given : j # i /\ given[j] = given[i]
            IN  IF second THEN last'.raised /\ recips' = recips
                ELSE ~last'.raised /\ Len(recips') = Len(recips) + Len(given)]_vars

\* C18 witness: adding a list that names a contact who is already a recipient
\* of the message, after that recipient was sent to, was refused
C18_Witness ==
    /\ last.op = "add_recipients"
    /\ last.raised
    /\ Len(last.contacts) = 2
    /\ \E r \in DOMAIN recips :
        /\ recips[r].message = last.message
        /\ recips[r].contact = last.contacts[2]
        /\ recips[r].status = "sent"

\* C19: get_sent_count counts the recipients who have received the message:
\* a recipient who was sent the email stays counted after an open or a click
\* of theirs is recorded, so the count never decreases as tracking events arrive
C19_SentCountKeepsOpened ==
    [][last'.op \in {"beacon", "record_open", "record_click", "click_post", "mark_clicked"} =>
        /\ \A m \in DOMAIN messages : get_sent_count(recips', m) >= get_sent_count(recips, m)
        /\ \A c \in DOMAIN campaigns :
                campaign_get_sent_count(recips', c) >= campaign_get_sent_count(recips, c)]_vars

\* C20: once a run of send_campaign_emails has left the campaign 'completed',
\* no recipient of its message is still 'pending', whatever the per-run limit,
\* a limit smaller than the number of pending recipients included
C20_CompletedHasNoPending ==
    [][(last'.op \in {"send_campaign_emails", "send_now"} /\ last'.ran) =>
        LET c == last'.campaign
        IN  campaigns'[c].status = "completed" =>
                \A r \in RecipientsOf(recips', FirstMessage(c)) :
                    recips'[r].status # "pending"]_vars

\* The campaign is one send_campaign_emails refuses: not active, scheduled in
\* the future, or without a message
Refused(c) ==
    \/ campaigns[c].status # "active"
    \/ campaigns[c].scheduled_at = "future"
    \/ FirstMessage(c) = 0

\* C21: send_campaign_emails on a campaign that is not active, or scheduled in
\* the future, or without a message returns (0, 0), sends nothing and changes
\* no campaign, message-recipient or SMTP-account state
C21_RefusedRunChangesNothing ==
    [][(last'.op = "send_campaign_emails" /\ Refused(last'.campaign)) =>
        /\ last'.result = <<0, 0>>
        /\ last'.attempted = {}
        /\ campaigns' = campaigns
        /\ messages' = messages
        /\ recips' = recips
        /\ smtp' = smtp]_vars

\* C21 witness: a run was refused for an active campaign scheduled in the
\* future whose message has a pending recipient and whose owner has an account
C21_Witness ==
    /\ last.op = "send_campaign_emails"
    /\ ~last.ran
    /\ campaigns[last.campaign].status = "active"
    /\ campaigns[last.campaign].scheduled_at = "future"
    /\ FirstMessage(last.campaign) # 0
    /\ \E r \in RecipientsOf(recips, FirstMessage(last.campaign)) : recips[r].status = "pending"
    /\ DOMAIN smtp # {}

\* C22: recording an open (a beacon hit or record_open) sets a recipient's
\* status to 'opened' only when it is 'sent' or 'opened'; a recipient that is
\* 'clicked', 'pending' or 'failed' keeps its status
C22_OpenKeepsOtherStatuses ==
    [][last'.op \in {"beacon", "record_open"} =>
        \A r \in DOMAIN recips :
            recips[r].status \notin {"sent", "opened"} =>
                recips'[r].status = recips[r].status]_vars

====
